---- MODULE Spec2Model ----
(***************************************************************************)
(* Virtual LED-matrix display engine of the ESP32 CYD TFT Matrix Clock:    *)
(* the 64-byte framebuffer scr[], the bitmap-font blitter, the dirty-      *)
(* tracking refresh pass, the two pixel renderers, the colour handling and *)
(* the web handlers that change the rendering parameters.                  *)
(*                                                                         *)
(* Characters are their ASCII codes.  A framebuffer is a function          *)
(* 0..63 -> 0..255, index = column + 32 * moduleRow, bit b of a byte is    *)
(* logical row moduleRow*8 + b.                                            *)
(***************************************************************************)
EXTENDS Integers, Sequences, FiniteSets, TLC

\* ------------------------------------------------------------ constants
LINE_WIDTH == 32
DISPLAY_ROWS == 2
TOTAL_WIDTH == 32
TOTAL_HEIGHT == 16
TFT_WIDTH == 320
TFT_HEIGHT == 240
BG_COLOR == 0
COLOR_RED == 63488
COLOR_GREEN == 2016
COLOR_BLUE == 31
COLOR_YELLOW == 65504
COLOR_CYAN == 2047
COLOR_MAGENTA == 63519
COLOR_WHITE == 65535
COLOR_ORANGE == 64800
COLOR_DARK_GRAY == 31727
COLOR_LIGHT_GRAY == 50712
OFF_LED_COLOR == 6144
INITIAL_LED_OFF_COLOR == 8192
DEFAULT_DISPLAY_STYLE == 1
DEFAULT_LED_SIZE == 9
DEFAULT_LED_SPACING == 1
DEFAULT_MODE_INTERVAL == 5
MATRIX_GAP == 4
HOUSING_DIM_FACTOR == 7

BufSize == LINE_WIDTH * DISPLAY_ROWS
BufIdx == 0 .. (BufSize - 1)
Byte == 0 .. 255

\* ------------------------------------------------------------ bit helpers
Pow2(n) == 2 ^ n

\* (pixelByte & (1 << bitPos)) != 0
BitSet(byte, bitPos) == (byte \div Pow2(bitPos)) % 2 = 1

\* C integer division truncates toward zero
CDiv(a, b) == IF a >= 0 THEN a \div b ELSE -((-a) \div b)

\* Op applied to the value of v, which is worked out once
With(v, Op(_)) == CHOOSE r \in {Op(x) : x \in {v}} : TRUE

Max0(v) == IF v > 0 THEN v ELSE 0

\* ------------------------------------------------------------ colour
RedOf(color) == (color \div 2048) % 32
GreenOf(color) == (color \div 32) % 64
BlueOf(color) == color % 32
PackRGB565(r, g, b) == r * 2048 + g * 32 + b

dimRGB565(color, factor) ==
    PackRGB565(RedOf(color) \div (factor + 1),
               GreenOf(color) \div (factor + 1),
               BlueOf(color) \div (factor + 1))

\* uint16_t ledOffColor = ledOnColor >> 3
OffColorFromOn(onColor) == (onColor \div 8) % 65536

\* ------------------------------------------------------------ fonts
(* fonts.h is not among the sources.  The tables are laid out in the format *)
(* drawCharWithY reads: a 4-byte header [width, height, firstChar,          *)
(* lastChar], then one record per character of 1 + ceil(height/8)*width     *)
(* bytes: the glyph's width, then its column bytes, column by column.       *)
Fonts == {"font3x7", "digits5x8rn", "digits5x16rn", "digits3x5"}

FontWidth(font) ==
    CASE font = "font3x7" -> 3
      [] font = "digits5x8rn" -> 5
      [] font = "digits5x16rn" -> 5
      [] font = "digits3x5" -> 3

FontHeight(font) ==
    CASE font = "font3x7" -> 7
      [] font = "digits5x8rn" -> 8
      [] font = "digits5x16rn" -> 16
      [] font = "digits3x5" -> 5

FontFirst(font) ==
    CASE font = "font3x7" -> 32
      [] font = "digits5x8rn" -> 32
      [] font = "digits5x16rn" -> 32
      [] font = "digits3x5" -> 48

FontLast(font) ==
    CASE font = "font3x7" -> 126
      [] font = "digits5x8rn" -> 126
      [] font = "digits5x16rn" -> 58
      [] font = "digits3x5" -> 57

FontRows(font) == (FontHeight(font) + 7) \div 8
FontStride(font) == FontRows(font) * FontWidth(font) + 1
FontTableLen(font) == 4 + (FontLast(font) - FontFirst(font) + 1) * FontStride(font)

\* visible width of a glyph: space, colon and full stop are narrow
GlyphWidth(font, c) ==
    IF c = 58 \/ c = 46 THEN 1
    ELSE IF c = 32 THEN 2
    ELSE FontWidth(font)

\* column byte i of byte-row j of a glyph
GlyphCol(font, c, i, j) ==
    LET bits == IF FontHeight(font) - 8 * j >= 8 THEN 8 ELSE FontHeight(font) - 8 * j
    IN  IF i >= GlyphWidth(font, c) \/ c = 32 THEN 0
        ELSE IF font = "font3x7" /\ c = 58 THEN 36
        ELSE 1 + ((c * 37 + i * 11 + j * 5) % (Pow2(bits) - 1))

\* pgm_read_byte(font + k); a read past the end of the table yields oob
FontByte(font, k, oob) ==
    IF k < 0 \/ k >= FontTableLen(font) THEN oob
    ELSE IF k = 0 THEN FontWidth(font)
    ELSE IF k = 1 THEN FontHeight(font)
    ELSE IF k = 2 THEN FontFirst(font)
    ELSE IF k = 3 THEN FontLast(font)
    ELSE LET g == (k - 4) \div FontStride(font)
             r == (k - 4) % FontStride(font)
             c == FontFirst(font) + g
         IN  IF r = 0 THEN GlyphWidth(font, c)
             ELSE GlyphCol(font, c, (r - 1) \div FontRows(font), (r - 1) % FontRows(font))

\* ------------------------------------------------------------ font helpers
\* offset after iterations i .. charIndex-1 of
\*   for (i = 0; i < charIndex; i++) { w = font[offset]; offset += w * fht + 1; }
\* the iterations are run as two halves, one after the other
RECURSIVE CharWidthWalk(_, _, _, _, _)
CharWidthWalk(font, i, charIndex, offset, oob) ==
    IF i >= charIndex THEN offset
    ELSE IF i + 1 = charIndex
    THEN offset + FontByte(font, offset, oob) * FontByte(font, 1, oob) + 1
    ELSE With(CharWidthWalk(font, i, i + ((charIndex - i) \div 2), offset, oob),
              LAMBDA mid : CharWidthWalk(font, i + ((charIndex - i) \div 2), charIndex,
                                         mid, oob))

charWidth(c, font, oob) ==
    LET firstChar == FontByte(font, 2, oob)
        lastChar == FontByte(font, 3, oob)
    IN  IF c < firstChar \/ c > lastChar THEN 0
        ELSE FontByte(font, CharWidthWalk(font, 0, c - firstChar, 4, oob), oob)

RECURSIVE stringWidthFrom(_, _, _, _)
stringWidthFrom(str, k, font, oob) ==
    IF k > Len(str) THEN 0
    ELSE charWidth(str[k], font, oob) + 1 + stringWidthFrom(str, k + 1, font, oob)

stringWidth(str, font, oob) == stringWidthFrom(str, 1, font, oob) - 1

\* ------------------------------------------------------------ glyph blitter
\* mutant: the column test x + i < LINE_WIDTH is missing, so a column past
\* the right edge lands in the next module row
WriteScrNoColumnTest(buf, x, yPos, j, i, val) ==
    LET bufferIndex == x + LINE_WIDTH * (j + yPos) + i
    IN  IF bufferIndex >= 0 /\ bufferIndex < BufSize
        THEN [buf EXCEPT ![bufferIndex] = val]
        ELSE buf

\* one guarded store of drawCharWithY: scr[x + LINE_WIDTH*(j+yPos) + i] = val
WriteScr(buf, x, yPos, j, i, val) ==
    IF x + i >= 0 /\ x + i < LINE_WIDTH
    THEN LET bufferIndex == x + LINE_WIDTH * (j + yPos) + i
         IN  IF bufferIndex >= 0 /\ bufferIndex < BufSize
             THEN [buf EXCEPT ![bufferIndex] = val]
             ELSE buf
    ELSE buf

\* offset of a character's record: 4 + c * (fht8 * fwd + 1), c already
\* reduced by the first character
GlyphOffset(c, font) == 4 + (c - FontByte(font, 2, 0)) * FontStride(font)

RECURSIVE BlitCols(_, _, _, _, _, _, _, _)
BlitCols(buf, x, yPos, c, font, j, i, w) ==
    IF i >= w THEN buf
    ELSE BlitCols(WriteScr(buf, x, yPos, j, i,
                           FontByte(font, GlyphOffset(c, font) + 1 + FontRows(font) * i + j, 0)),
                  x, yPos, c, font, j, i + 1, w)

\* mutant: the trailing blank column is not written
BlitRowNoBlank(buf, x, yPos, c, font, j, w) ==
    BlitCols(buf, x, yPos, c, font, j, 0, w)

\* one pass of the outer loop: the w glyph columns, then the blank column
BlitRow(buf, x, yPos, c, font, j, w) ==
    WriteScr(BlitCols(buf, x, yPos, c, font, j, 0, w), x, yPos, j, w, 0)

RECURSIVE BlitRows(_, _, _, _, _, _, _)
BlitRows(buf, x, yPos, c, font, j, w) ==
    IF j >= FontRows(font) THEN buf
    ELSE BlitRows(BlitRow(buf, x, yPos, c, font, j, w), x, yPos, c, font, j + 1, w)

\* mutant: a character outside the font still advances by the cell width
DrawCharRetCellWidth(c, font) ==
    IF c < FontByte(font, 2, 0) \/ c > FontByte(font, 3, 0) THEN FontByte(font, 0, 0)
    ELSE FontByte(font, GlyphOffset(c, font), 0)

\* return value of drawCharWithY
DrawCharRet(c, font) ==
    IF c < FontByte(font, 2, 0) \/ c > FontByte(font, 3, 0) THEN 0
    ELSE FontByte(font, GlyphOffset(c, font), 0)

\* framebuffer after drawCharWithY(x, yPos, c, font)
DrawCharScr(buf, x, yPos, c, font) ==
    IF c < FontByte(font, 2, 0) \/ c > FontByte(font, 3, 0) THEN buf
    ELSE BlitRows(buf, x, yPos, c, font, 0, FontByte(font, GlyphOffset(c, font), 0))

clearScreen == [b \in BufIdx |-> 0]


\* ------------------------------------------------------------ refresh engine
\* mutant: a forced redraw only fills the shadow with 0xFF and does not set
\* firstRun, so a cell whose byte is 0xFF is taken for unchanged
RefreshFirstRunKeepsFlag(force, first) == first

\* firstRun as the cell loop of refreshAll sees it
RefreshFirstRun(force, first) == force \/ first

\* lastScr as the cell loop sees it: all 0xFF after a forced invalidation
RefreshShadow(force, last) == IF force THEN [b \in BufIdx |-> 255] ELSE last

\* mutant: the dirty test ignores firstRun
CellDirtyNoFirstRun(first, pixelByte, lastByte) == pixelByte # lastByte

\* firstRun || pixelByte != lastScr[bufferIndex]
CellDirty(first, pixelByte, lastByte) == first \/ pixelByte # lastByte

\* mutant: the shadow byte is not updated when a cell is drawn
ShadowAfterStale(buf, last, first) == last

\* lastScr after the cell loop
ShadowAfter(buf, last, first) ==
    [b \in BufIdx |-> IF CellDirty(first, buf[b], last[b]) THEN buf[b] ELSE last[b]]

\* the cells the loop draws, in loop order (row, then column)
RECURSIVE DirtyCellsFrom(_, _, _, _)
DirtyCellsFrom(buf, last, first, b) ==
    IF b >= BufSize THEN <<>>
    ELSE IF CellDirty(first, buf[b], last[b])
    THEN <<b>> \o DirtyCellsFrom(buf, last, first, b + 1)
    ELSE DirtyCellsFrom(buf, last, first, b + 1)

\* the drawLEDPixel calls of the cell loop, in order: for each drawn cell, in
\* loop order, its bits 0..7
CellLoopCalls(buf, last, first, b) ==
    LET cells == DirtyCellsFrom(buf, last, first, b)
    IN  [n \in 1 .. 8 * Len(cells) |->
            LET c == cells[((n - 1) \div 8) + 1]
                bitPos == (n - 1) % 8
            IN  <<"led", c % LINE_WIDTH, (c \div LINE_WIDTH) * 8 + bitPos,
                  BitSet(buf[c], bitPos)>>]

\* calls issued by refreshAll() from the given state
RefreshCalls(buf, last, first, force) ==
    CellLoopCalls(buf, RefreshShadow(force, last), RefreshFirstRun(force, first), 0)

\* lastScr left by refreshAll() from the given state
RefreshLast(buf, last, first, force) ==
    ShadowAfter(buf, RefreshShadow(force, last), RefreshFirstRun(force, first))

\* ------------------------------------------------------------ pixel renderer
getDisplayWidth(size) == size * TOTAL_WIDTH
getDisplayHeight(size) == size * TOTAL_HEIGHT + MATRIX_GAP

\* mutant: the horizontal offset is not clamped at 0
OffsetXUnclamped(size) == CDiv(TFT_WIDTH - getDisplayWidth(size), 2)

OffsetX(size) == Max0(CDiv(TFT_WIDTH - getDisplayWidth(size), 2))
OffsetY(size) == Max0(CDiv(TFT_HEIGHT - getDisplayHeight(size), 2))

ScreenX(x, size) == OffsetX(size) + x * size

\* mutant: the gap is added from the last row of the upper module on
ScreenYGapFromRow7(y, size) ==
    OffsetY(size) + y * size + (IF y >= 7 THEN MATRIX_GAP ELSE 0)

ScreenY(y, size) == OffsetY(size) + y * size + (IF y >= 8 THEN MATRIX_GAP ELSE 0)

FillRect(x, y, w, h, color) ==
    [op |-> "fillRect", x |-> x, y |-> y, w |-> w, h |-> h, color |-> color]
DrawPixel(x, y, color) ==
    [op |-> "drawPixel", x |-> x, y |-> y, w |-> 1, h |-> 1, color |-> color]

\* mutant: only the core of a lit LED takes the LED colour
LitColorCoreOnly(px, py, size, on, surround) ==
    LET dx == px * 2 - size + 1
        dy == py * 2 - size + 1
        distSq == dx * dx + dy * dy
    IN  IF distSq <= (size - 6) * (size - 6) THEN on
        ELSE IF distSq <= size * size THEN surround
        ELSE BG_COLOR

\* colour of sub-pixel (px, py) of a lit realistic LED
LitColor(px, py, size, on, surround) ==
    LET dx == px * 2 - size + 1
        dy == py * 2 - size + 1
        distSq == dx * dx + dy * dy
    IN  IF distSq <= (size - 6) * (size - 6) THEN on
        ELSE IF distSq <= (size - 2) * (size - 2) THEN on
        ELSE IF distSq <= size * size THEN surround
        ELSE BG_COLOR

\* zone of sub-pixel (px, py) of an unlit realistic LED
OffZone(px, py, size) ==
    LET dx == px * 2 - size + 1
        dy == py * 2 - size + 1
        distSq == dx * dx + dy * dy
    IN  IF distSq <= (size - 4) * (size - 4) THEN "led"
        ELSE IF distSq <= (size - 2) * (size - 2) THEN "housing"
        ELSE "none"

\* the drawPixel calls of the lit loops, py outer, px inner, from index k
\* (a multiple of size), one row of the inner loop at a time
RECURSIVE LitPixels(_, _, _, _, _, _)
LitPixels(sx, sy, size, on, surround, k) ==
    IF k >= size * size THEN <<>>
    ELSE [i \in 1 .. size |->
             DrawPixel(sx + (i - 1), sy + (k \div size),
                       LitColor(i - 1, k \div size, size, on, surround))]
         \o LitPixels(sx, sy, size, on, surround, k + size)

\* the unlit loops at sub-pixel (px, py): a drawPixel call, or no call
OffPixelCall(sx, sy, size, surround, px, py) ==
    IF OffZone(px, py, size) = "led" THEN DrawPixel(sx + px, sy + py, OFF_LED_COLOR)
    ELSE IF OffZone(px, py, size) = "housing"
    THEN DrawPixel(sx + px, sy + py, dimRGB565(surround, HOUSING_DIM_FACTOR))
    ELSE [op |-> "none", x |-> 0, y |-> 0, w |-> 0, h |-> 0, color |-> 0]

IsCall(c) == c.op # "none"

\* the drawPixel calls of the unlit loops, px and py from 1 to size - 2, from
\* index k (a multiple of size - 2), one row of the inner loop at a time
RECURSIVE OffPixels(_, _, _, _, _)
OffPixels(sx, sy, size, surround, k) ==
    IF k >= (size - 2) * (size - 2) THEN <<>>
    ELSE SelectSeq([i \in 1 .. size - 2 |->
                       OffPixelCall(sx, sy, size, surround, i, 1 + (k \div (size - 2)))],
                   IsCall)
         \o OffPixels(sx, sy, size, surround, k + (size - 2))

\* mutant: the block is drawn smaller by the LED spacing, as on a real matrix
BlockCallsSpaced(sx, sy, lit, size, spacing, on) ==
    <<FillRect(sx, sy, size - spacing, size - spacing, IF lit THEN on ELSE BG_COLOR)>>

\* displayStyle == 0: one solid square
BlockCalls(sx, sy, lit, size, spacing, on) ==
    <<FillRect(sx, sy, size, size, IF lit THEN on ELSE BG_COLOR)>>

\* displayStyle != 0: background square, then the circular LED
RealisticCalls(sx, sy, lit, size, on, surround) ==
    IF ~lit
    THEN <<FillRect(sx, sy, size, size, BG_COLOR)>> \o OffPixels(sx, sy, size, surround, 0)
    ELSE <<FillRect(sx, sy, size, size, surround)>> \o LitPixels(sx, sy, size, on, surround, 0)

\* mutant: no bounds check on the cell
drawLEDPixelUnchecked(x, y, lit, size, spacing, style, on, surround) ==
    IF style = 0
    THEN BlockCalls(ScreenX(x, size), ScreenY(y, size), lit, size, spacing, on)
    ELSE RealisticCalls(ScreenX(x, size), ScreenY(y, size), lit, size, on, surround)

\* the TFT calls of drawLEDPixel(x, y, lit) under the given settings
drawLEDPixel(x, y, lit, size, spacing, style, on, surround) ==
    IF x < 0 \/ x >= TOTAL_WIDTH \/ y < 0 \/ y >= TOTAL_HEIGHT THEN <<>>
    ELSE IF style = 0
    THEN BlockCalls(ScreenX(x, size), ScreenY(y, size), lit, size, spacing, on)
    ELSE RealisticCalls(ScreenX(x, size), ScreenY(y, size), lit, size, on, surround)


\* ------------------------------------------------------------ formatting
RECURSIVE DecDigits(_)
DecDigits(n) == IF n < 10 THEN <<48 + n>> ELSE DecDigits(n \div 10) \o <<48 + (n % 10)>>

RECURSIVE ZeroPad(_, _)
ZeroPad(str, width) == IF Len(str) >= width THEN str ELSE ZeroPad(<<48>> \o str, width)

\* sprintf "%d"
FmtD(n) == IF n < 0 THEN <<45>> \o DecDigits(-n) ELSE DecDigits(n)

\* sprintf "%0<width>d"
FmtPad(n, width) ==
    IF n < 0 THEN <<45>> \o ZeroPad(DecDigits(-n), width - 1)
    ELSE ZeroPad(DecDigits(n), width)

\* the remainder of C's %, which has the sign of the dividend
CMod(a, b) == a - b * CDiv(a, b)

formatDate(fmt, d, m, y) ==
    CASE fmt = 0 -> FmtPad(d, 2) \o <<47>> \o FmtPad(m, 2) \o <<47>> \o FmtPad(CMod(y, 100), 2)
      [] fmt = 1 -> FmtPad(m, 2) \o <<47>> \o FmtPad(d, 2) \o <<47>> \o FmtPad(CMod(y, 100), 2)
      [] fmt = 2 -> FmtPad(y, 4) \o <<45>> \o FmtPad(m, 2) \o <<45>> \o FmtPad(d, 2)
      [] fmt = 3 -> FmtPad(d, 2) \o <<46>> \o FmtPad(m, 2) \o <<46>> \o FmtPad(y, 4)
      [] fmt = 4 -> FmtPad(m, 2) \o <<46>> \o FmtPad(d, 2) \o <<46>> \o FmtPad(y, 4)
      [] OTHER -> FmtPad(d, 2) \o <<47>> \o FmtPad(m, 2) \o <<47>> \o FmtPad(CMod(y, 100), 2)

\* ------------------------------------------------------------ mode composers
\* A composition state is [buf, x]: the framebuffer and the pen column.
Pen(buf, x) == [buf |-> buf, x |-> x]

\* x += drawCharWithY(x, row, c, font)
PutChar(st, row, c, font) ==
    With(st, LAMBDA s : Pen(DrawCharScr(s.buf, s.x, row, c, font),
                            s.x + DrawCharRet(c, font)))

\* x += n
Skip(st, n) == [st EXCEPT !.x = @ + n]

\* x = col
MoveTo(st, col) == [st EXCEPT !.x = col]

\* for (p = buf; *p; p++) { x += drawCharWithY(..); if (*(p+1)) x++; }
RECURSIVE TextPlain(_, _, _, _, _)
TextPlain(st, str, k, row, font) ==
    IF k > Len(str) THEN st
    ELSE With(PutChar(st, row, str[k], font),
              LAMBDA a : TextPlain(IF k < Len(str) THEN Skip(a, 1) ELSE a,
                                   str, k + 1, row, font))

\* for (..) { if (x < limit) { x += drawCharWithY(..);
\*                             if (*(p+1) && x < LINE_WIDTH) x++; } }
RECURSIVE TextGuarded(_, _, _, _, _, _)
TextGuarded(st, str, k, row, font, limit) ==
    IF k > Len(str) THEN st
    ELSE With(st, LAMBDA s :
             IF s.x < limit
             THEN With(PutChar(s, row, str[k], font),
                       LAMBDA a : TextGuarded(IF k < Len(str) /\ a.x < LINE_WIDTH
                                              THEN Skip(a, 1) ELSE a,
                                              str, k + 1, row, font, limit))
             ELSE TextGuarded(s, str, k + 1, row, font, limit))

\* for (..) { x += drawCharWithY(..) + 1; }
RECURSIVE TextSpaced(_, _, _, _, _)
TextSpaced(st, str, k, row, font) ==
    IF k > Len(str) THEN st
    ELSE With(PutChar(st, row, str[k], font),
              LAMBDA a : TextSpaced(Skip(a, 1), str, k + 1, row, font))

\* mutant: a hidden colon takes one column less than a shown one
ColonHiddenNarrow(st, showDots, font) ==
    IF showDots THEN Skip(PutChar(Skip(st, 1), 0, 58, font), 1) ELSE Skip(st, 2)

\* x++; if (showDots) { x += drawCharWithY(x, 0, ':', font); x++; } else x += 2;
Colon(st, showDots, font) ==
    IF showDots THEN Skip(PutChar(Skip(st, 1), 0, 58, font), 1) ELSE Skip(st, 3)

HourText(in) ==
    LET displayHours == IF in.use24 THEN in.hours24 ELSE in.hours
    IN  IF in.lz THEN FmtPad(displayHours, 2) ELSE FmtD(displayHours)

SensorText(in) ==
    IF in.sensor
    THEN <<84>> \o FmtD(IF in.fahr THEN CDiv(in.temp * 9, 5) + 32 ELSE in.temp)
         \o <<IF in.fahr THEN 70 ELSE 67, 32, 72>> \o FmtD(in.hum) \o <<37>>
    ELSE <<78, 79, 32, 83, 69, 78, 83, 79, 82>>

\* the font of the hours, the colon and the minutes in each mode
TimeFont(mode) ==
    CASE mode = 0 -> "font3x7"
      [] mode = 1 -> "digits5x16rn"
      [] mode = 2 -> "digits5x8rn"

\* the column of the first hour digit: Mode 1 indents a one-digit hour
HourStart(mode, in) ==
    LET displayHours == IF in.use24 THEN in.hours24 ELSE in.hours
    IN  IF mode = 1 /\ ~(displayHours > 9 \/ in.lz) THEN 3 ELSE 0

\* the composition after clearScreen(), the hours and the colon: the pen is
\* where the minute digits start
AfterColon(mode, in) ==
    Colon(TextPlain(Pen(clearScreen, HourStart(mode, in)), HourText(in), 1, 0,
                    TimeFont(mode)),
          in.seconds % 2 = 0, TimeFont(mode))

displayTimeAndTemp(in) ==
    LET c == AfterColon(0, in)
        m == TextPlain(c, FmtPad(in.minutes, 2), 1, 0, "font3x7")
        a == IF in.use24 THEN m
             ELSE TextGuarded(Skip(m, 1),
                              IF in.hours24 >= 12 THEN <<80, 77>> ELSE <<65, 77>>,
                              1, 0, "font3x7", LINE_WIDTH)
    IN  TextGuarded(MoveTo(a, 0), SensorText(in), 1, 1, "font3x7", LINE_WIDTH - 3).buf

displayTimeLarge(in) ==
    LET c == AfterColon(1, in)
        m == TextPlain(c, FmtPad(in.minutes, 2), 1, 0, "digits5x16rn")
    IN  TextGuarded(Skip(m, 1), FmtPad(in.seconds, 2), 1, 0, "font3x7",
                    LINE_WIDTH).buf

displayTimeAndDate(in) ==
    LET c == AfterColon(2, in)
        m == TextPlain(c, FmtPad(in.minutes, 2), 1, 0, "digits5x8rn")
        s == TextGuarded(Skip(m, 1), FmtPad(in.seconds, 2), 1, 0, "digits3x5",
                         LINE_WIDTH)
    IN  TextSpaced(MoveTo(s, 2), formatDate(in.fmt, in.day, in.month, in.year), 1, 1,
                   "font3x7").buf

\* switch (currentMode) { case 0: .. case 1: .. case 2: .. }
Compose(mode, in, buf) ==
    CASE mode = 0 -> displayTimeAndTemp(in)
      [] mode = 1 -> displayTimeLarge(in)
      [] mode = 2 -> displayTimeAndDate(in)
      [] OTHER -> buf


\* ------------------------------------------------------------ state
VARIABLES
    scr,                \* byte scr[64]: the framebuffer
    lastScr,            \* static byte lastScr[64] of refreshAll: the shadow cache
    firstRun,           \* static bool firstRun of refreshAll
    forceFullRedraw,
    canvas,             \* what each logical cell shows on the TFT
    ledSize, ledSpacing, displayStyle, ledOnColor, ledSurroundColor, ledOffColor,
    surroundMatchesLED, displayRotation,
    dateFormat, modeSwitchInterval, use24HourFormat, showLeadingZero, useFahrenheit,
    hours, hours24, minutes, seconds, day, month, year, lastSecond,
    currentMode, lastModeSwitch,
    sensorAvailable, temperature, humidity,
    millis,             \* milliseconds since boot
    bootClock,          \* wall-clock second of the day at boot
    buttonHeldUntil,    \* the BOOT button reads LOW before this time, HIGH from it on
    pressStart,         \* unsigned long pressStart of setup()
    resetWiFi,          \* bool resetWiFi of setup()
    pc,                 \* position of the program
    requests,           \* web requests handled so far
    op,                 \* the operation that ran last
    args,               \* its inputs
    pre,                \* what it found when it started
    ret,                \* its return value
    ledCalls,           \* the fillScreen and drawLEDPixel calls it issued, in order
    tftCalls            \* the fillRect and drawPixel calls of one drawLEDPixel call

bufVars == <<scr, lastScr, firstRun, forceFullRedraw, canvas>>
styleVars == <<ledSize, ledSpacing, displayStyle, ledOnColor, ledSurroundColor,
               ledOffColor, surroundMatchesLED, displayRotation>>
formatVars == <<dateFormat, modeSwitchInterval, use24HourFormat, showLeadingZero,
                useFahrenheit>>
timeVars == <<hours, hours24, minutes, seconds, day, month, year, lastSecond>>
modeVars == <<currentMode, lastModeSwitch>>
sensorVars == <<sensorAvailable, temperature, humidity>>
bootVars == <<buttonHeldUntil, pressStart, resetWiFi>>
envVars == <<millis, bootClock, bootVars>>
ctlVars == <<pc, requests>>
obsVars == <<op, args, pre, ret, ledCalls, tftCalls>>
vars == <<bufVars, styleVars, formatVars, timeVars, modeVars, sensorVars, envVars,
          ctlVars, obsVars>>

\* The canvas is kept per framebuffer cell: the byte whose 8 pixels were drawn
\* there last and the settings they were drawn with, or Blank after a clear.
Blank == [byte |-> -1, size |-> 0, style |-> -1, on |-> BG_COLOR,
          surround |-> BG_COLOR, rot |-> 0]

\* tft.fillScreen(BG_COLOR)
fillScreen == [b \in BufIdx |-> Blank]

\* the rendering settings drawLEDPixel reads
Settings(size, style, on, surround, rot) ==
    [size |-> size, style |-> style, on |-> on, surround |-> surround, rot |-> rot]
CurSettings == Settings(ledSize, displayStyle, ledOnColor, ledSurroundColor,
                        displayRotation)

Paint(pixelByte, st) ==
    [byte |-> pixelByte, size |-> st.size, style |-> st.style, on |-> st.on,
     surround |-> st.surround, rot |-> st.rot]

\* the canvas after refreshAll() has drawn the dirty cells over cv
CanvasAfter(cv, buf, last, first, force, st) ==
    LET l == RefreshShadow(force, last)
        f == RefreshFirstRun(force, first)
    IN  [b \in BufIdx |-> IF CellDirty(f, buf[b], l[b]) THEN Paint(buf[b], st) ELSE cv[b]]

\* refreshAll() on framebuffer buf with shadow last, firstRun = first and
\* forceFullRedraw = force, over canvas cv, after the calls in before
RefreshAll(buf, last, first, force, cv, st, before) ==
    /\ lastScr' = RefreshLast(buf, last, first, force)
    /\ firstRun' = FALSE
    /\ forceFullRedraw' = FALSE
    /\ ledCalls' = before \o RefreshCalls(buf, last, first, force)
    /\ canvas' = CanvasAfter(cv, buf, last, first, force, st)

\* the globals as their initialisers leave them
InitBuffers ==
    /\ scr = [b \in BufIdx |-> 0]
    /\ lastScr = [b \in BufIdx |-> 0]
    /\ firstRun = TRUE
    /\ forceFullRedraw = FALSE
    /\ canvas = fillScreen

InitStyle ==
    /\ ledSize = DEFAULT_LED_SIZE
    /\ ledSpacing = DEFAULT_LED_SPACING
    /\ displayStyle = DEFAULT_DISPLAY_STYLE
    /\ ledOnColor = COLOR_RED
    /\ ledSurroundColor = COLOR_RED
    /\ ledOffColor = INITIAL_LED_OFF_COLOR
    /\ surroundMatchesLED = FALSE
    /\ displayRotation = 1

InitFormat ==
    /\ dateFormat = 0
    /\ modeSwitchInterval = DEFAULT_MODE_INTERVAL
    /\ use24HourFormat = FALSE
    /\ showLeadingZero = FALSE
    /\ useFahrenheit = FALSE

InitTime ==
    /\ hours = 0 /\ hours24 = 0 /\ minutes = 0 /\ seconds = 0
    /\ day = 1 /\ month = 1 /\ year = 2025
    /\ lastSecond = -1

InitMode == currentMode = 0 /\ lastModeSwitch = 0

InitSensor == sensorAvailable = FALSE /\ temperature = 0 /\ humidity = 0

NoClock == [sod |-> 0, day |-> 1, month |-> 1, year |-> 2025]

\* the BOOT button is not touched and setup() has not sampled it yet
InitButton == buttonHeldUntil = 0 /\ pressStart = 0 /\ resetWiFi = FALSE

InitObs ==
    /\ op = "init"
    /\ args = [kind |-> "none"]
    /\ pre = [op |-> "none", firstRun |-> FALSE, force |-> FALSE, dirty |-> {},
              was |-> [firstRun |-> FALSE, force |-> FALSE]]
    /\ ret = 0
    /\ ledCalls = <<>>
    /\ tftCalls = <<>>

InitGlobals ==
    /\ InitBuffers /\ InitStyle /\ InitFormat /\ InitTime /\ InitMode /\ InitSensor /\ InitButton
    /\ millis = 0 /\ bootClock = NoClock
    /\ requests = 0

\* ------------------------------------------------------------ refresh engine alone
(* The refresh pass under arbitrary framebuffer writes: a producer stores    *)
(* bytes into scr[], someone sets forceFullRedraw, refreshAll() runs.        *)
TestIdx == {0, 63}
TestBytes == {0, 129, 255}

DirtyCells == {b \in BufIdx : scr[b] # lastScr[b]}

RefreshPre ==
    [op |-> op, firstRun |-> firstRun, force |-> forceFullRedraw, dirty |-> DirtyCells,
     was |-> [firstRun |-> pre.firstRun, force |-> pre.force]]

R_Write ==
    \E b \in TestIdx, v \in TestBytes :
        /\ scr[b] # v
        /\ scr' = [scr EXCEPT ![b] = v]
        /\ op' = "write"
        /\ args' = [kind |-> "write"]
        /\ pre' = RefreshPre
        /\ ledCalls' = <<>>
        /\ UNCHANGED <<lastScr, firstRun, forceFullRedraw, canvas, ret, tftCalls>>
        /\ UNCHANGED <<styleVars, formatVars, timeVars, modeVars, sensorVars, envVars,
                       ctlVars>>

R_Force ==
    /\ ~forceFullRedraw
    /\ forceFullRedraw' = TRUE
    /\ op' = "force"
    /\ args' = [kind |-> "force"]
    /\ pre' = RefreshPre
    /\ ledCalls' = <<>>
    /\ UNCHANGED <<scr, lastScr, firstRun, canvas, ret, tftCalls>>
    /\ UNCHANGED <<styleVars, formatVars, timeVars, modeVars, sensorVars, envVars, ctlVars>>

R_Refresh ==
    /\ RefreshAll(scr, lastScr, firstRun, forceFullRedraw, canvas, CurSettings, <<>>)
    /\ op' = "refreshAll"
    /\ args' = [kind |-> "refreshAll"]
    /\ pre' = RefreshPre
    /\ UNCHANGED <<scr, ret, tftCalls>>
    /\ UNCHANGED <<styleVars, formatVars, timeVars, modeVars, sensorVars, envVars, ctlVars>>

InitRefresh == InitGlobals /\ InitObs /\ pc = "refresh"
NextRefresh == R_Write \/ R_Force \/ R_Refresh
SpecRefresh == InitRefresh /\ [][NextRefresh]_vars

\* the logical pixels the calls of the last operation drew
LedPixels ==
    {<<ledCalls[k][2], ledCalls[k][3]>> :
        k \in {n \in 1 .. Len(ledCalls) : ledCalls[n][1] = "led"}}
AllPixels == (0 .. (TOTAL_WIDTH - 1)) \X (0 .. (TOTAL_HEIGHT - 1))
PixelsOfByte(b) == {<<b % LINE_WIDTH, (b \div LINE_WIDTH) * 8 + k>> : k \in 0 .. 7}

\* C1: a refreshAll() that starts with forceFullRedraw set calls drawLEDPixel
\* exactly 512 times, once for every logical pixel, whatever scr[] and lastScr[]
\* held
C1_ForcedRedrawDrawsEveryPixelOnce ==
    (op = "refreshAll" /\ pre.force) =>
        /\ Len(ledCalls) = TOTAL_WIDTH * TOTAL_HEIGHT
        /\ LedPixels = AllPixels

\* a forced pass over a clean cache that holds a 0xFF byte
C1_Witness ==
    /\ op = "refreshAll" /\ pre.force /\ ~pre.firstRun /\ pre.dirty = {}
    /\ \E b \in BufIdx : scr[b] = 255
    /\ Len(ledCalls) = 512

\* C2: a refreshAll() on a cold cache issues draw calls, and a refreshAll() that
\* directly follows another one issues none
C2_SecondRefreshDrawsNothing ==
    /\ (op = "refreshAll" /\ pre.firstRun) => Len(ledCalls) > 0
    /\ (op = "refreshAll" /\ pre.op = "refreshAll") => ledCalls = <<>>

\* the second of two passes in a row, the first on the cold cache of startup
\* with a non-zero framebuffer
C2_Witness ==
    /\ op = "refreshAll" /\ pre.op = "refreshAll"
    /\ pre.was.firstRun /\ ~pre.was.force
    /\ \E b \in BufIdx : scr[b] # 0
    /\ ledCalls = <<>>

\* C3: in one pass a cell has its 8 pixels drawn, once each, exactly when
\* forceFullRedraw or firstRun was set at the start or its byte differed from
\* its shadow byte; any other cell gets no draw call
C3_CellDrawnIffDirty ==
    op = "refreshAll" =>
        LET drawnBytes == {b \in BufIdx : pre.force \/ pre.firstRun \/ b \in pre.dirty}
        IN  /\ \A b \in BufIdx :
                IF b \in drawnBytes
                THEN PixelsOfByte(b) \subseteq LedPixels
                ELSE PixelsOfByte(b) \cap LedPixels = {}
            /\ Len(ledCalls) = 8 * Cardinality(drawnBytes)

\* a pass with neither flag set that draws some cells and skips others
C3_Witness ==
    /\ op = "refreshAll" /\ ~pre.force /\ ~pre.firstRun
    /\ pre.dirty # {}
    /\ Len(ledCalls) = 8 * Cardinality(pre.dirty)
    /\ Len(ledCalls) < 512


\* ------------------------------------------------------------ glyph blitter alone
(* One call of drawCharWithY, charWidth or stringWidth on inputs drawn from  *)
(* bounded sets.                                                             *)
MaxX == 34
MaxNegX == 7
MaxRow == 2
TestChars == {-3, 31, 32, 33, 47, 48, 49, 53, 57, 58, 59, 65, 126, 127, 200}
TestStrings == {<<48>>, <<49>>, <<33>>, <<32, 32>>, <<49, 50, 58, 51, 52>>,
                <<82, 69, 65, 68, 89>>, <<73, 78, 73, 84>>, <<200, 48>>}
\* what a read past the end of a font table may return
OobBytes == {0, 3, 255}
Backgrounds == {[b \in BufIdx |-> 0], [b \in BufIdx |-> 255]}

\* the pixel setter of the emulation guide
LINE_HEIGHT == 16
\* how far outside the matrix the coordinates given to setCol reach
PixelMargin == 2

\* byte | (1 << bitPos) and byte & ~(1 << bitPos)
OrBit(byte, bitPos) == IF BitSet(byte, bitPos) THEN byte ELSE byte + Pow2(bitPos)
ClearBit(byte, bitPos) == IF BitSet(byte, bitPos) THEN byte - Pow2(bitPos) ELSE byte

\* mutant: no test of the coordinates; the store goes wherever the index
\* falls inside scr[]
setColUnguarded(buf, x, y, v) ==
    LET idx == CDiv(y, 8) * LINE_WIDTH + x
    IN  IF y < 0 \/ idx \notin BufIdx THEN buf
        ELSE [buf EXCEPT ![idx] = IF v # 0 THEN OrBit(@, y % 8) ELSE ClearBit(@, y % 8)]

\* scr[] after setCol(x, y, v)
setCol(buf, x, y, v) ==
    IF x < 0 \/ x >= LINE_WIDTH \/ y < 0 \/ y >= LINE_HEIGHT THEN buf
    ELSE LET idx == (y \div 8) * LINE_WIDTH + x
         IN  [buf EXCEPT ![idx] = IF v # 0 THEN OrBit(@, y % 8) ELSE ClearBit(@, y % 8)]

InitGlyph ==
    /\ InitStyle /\ InitFormat /\ InitTime /\ InitMode /\ InitSensor /\ InitButton
    /\ millis = 0 /\ bootClock = NoClock /\ requests = 0
    /\ lastScr = [b \in BufIdx |-> 0] /\ firstRun = TRUE /\ forceFullRedraw = FALSE
    /\ canvas = fillScreen
    /\ op = "init" /\ ret = 0 /\ ledCalls = <<>> /\ tftCalls = <<>>
    /\ pre = [scr |-> <<>>]
    /\ pc = "call"
    /\ \/ /\ scr \in Backgrounds
          /\ \E x \in (-MaxNegX) .. MaxX, yPos \in -1 .. MaxRow, c \in TestChars,
                font \in Fonts :
                args = [kind |-> "blit", x |-> x, yPos |-> yPos, c |-> c, font |-> font]
       \/ /\ scr \in Backgrounds
          /\ \E x \in (-PixelMargin) .. (LINE_WIDTH - 1 + PixelMargin),
                y \in (-PixelMargin) .. (LINE_HEIGHT - 1 + PixelMargin), v \in {0, 1} :
                args = [kind |-> "setCol", x |-> x, y |-> y, v |-> v]
       \/ /\ scr = [b \in BufIdx |-> 0]
          /\ \E c \in TestChars, font \in Fonts, oob \in OobBytes :
                args = [kind |-> "charWidth", c |-> c, font |-> font, oob |-> oob]
       \/ /\ scr = [b \in BufIdx |-> 0]
          /\ \E str \in TestStrings, font \in Fonts, oob \in OobBytes :
                args = [kind |-> "stringWidth", str |-> str, font |-> font, oob |-> oob]

GlyphFrame ==
    /\ pc' = "done"
    /\ pre' = [scr |-> scr]
    /\ UNCHANGED <<args, lastScr, firstRun, forceFullRedraw, canvas, ledCalls, tftCalls,
                   requests>>
    /\ UNCHANGED <<styleVars, formatVars, timeVars, modeVars, sensorVars, envVars>>

G_Blit ==
    /\ pc = "call" /\ args.kind = "blit"
    /\ scr' = DrawCharScr(scr, args.x, args.yPos, args.c, args.font)
    /\ ret' = DrawCharRet(args.c, args.font)
    /\ op' = "blit"
    /\ GlyphFrame

G_SetCol ==
    /\ pc = "call" /\ args.kind = "setCol"
    /\ scr' = setCol(scr, args.x, args.y, args.v)
    /\ op' = "setCol"
    /\ UNCHANGED ret
    /\ GlyphFrame

G_CharWidth ==
    /\ pc = "call" /\ args.kind = "charWidth"
    /\ ret' = charWidth(args.c, args.font, args.oob)
    /\ op' = "charWidth"
    /\ UNCHANGED scr
    /\ GlyphFrame

G_StringWidth ==
    /\ pc = "call" /\ args.kind = "stringWidth"
    /\ ret' = stringWidth(args.str, args.font, args.oob)
    /\ op' = "stringWidth"
    /\ UNCHANGED scr
    /\ GlyphFrame

NextGlyph == G_Blit \/ G_SetCol \/ G_CharWidth \/ G_StringWidth
SpecGlyph == InitGlyph /\ [][NextGlyph]_vars

InFont(c, font) == c >= FontFirst(font) /\ c <= FontLast(font)
ChangedIdx == {b \in DOMAIN scr : b \notin BufIdx \/ scr[b] # pre.scr[b]}

\* C5: drawCharWithY stores only into cells whose column is x+i, inside
\* [0, 32), and whose module row is yPos+j, inside {0, 1}; a glyph column at or
\* past column 32 is dropped and never lands in another module row, and no
\* index outside 0..63 is stored to
C5_BlitStaysInAddressedCells ==
    op = "blit" =>
        /\ DOMAIN scr = BufIdx
        /\ \A b \in ChangedIdx :
              /\ (b % LINE_WIDTH) - args.x \in 0 .. ret
              /\ (b \div LINE_WIDTH) - args.yPos \in 0 .. (FontRows(args.font) - 1)

\* a glyph that straddles column 32: its left part is stored, row 1 is left
\* alone
C5_Witness ==
    /\ op = "blit" /\ args.yPos = 0 /\ args.x < LINE_WIDTH /\ args.x + ret > LINE_WIDTH
    /\ FontRows(args.font) = 1
    /\ scr[args.x] # pre.scr[args.x]
    /\ \A b \in LINE_WIDTH .. (BufSize - 1) : scr[b] = pre.scr[b]

\* C6: for a character outside [firstChar, lastChar] drawCharWithY leaves the
\* 64 bytes as they were and returns 0, and charWidth returns 0
C6_UnsupportedCharIsNoOp ==
    /\ (op = "blit" /\ ~InFont(args.c, args.font)) => (scr = pre.scr /\ ret = 0)
    /\ (op = "charWidth" /\ ~InFont(args.c, args.font)) => ret = 0

\* a blit of a character past lastChar at a position inside the buffer
C6_Witness ==
    /\ op = "blit" /\ args.c > FontLast(args.font)
    /\ args.x \in 0 .. 20 /\ args.yPos = 0
    /\ scr = pre.scr /\ ret = 0

\* C7: after a digit of width w is blitted at x >= 0 with x + w < 32, each
\* byte-row of the glyph that lies in the buffer holds the font's column bytes
\* in columns x .. x+w-1 and 0 in column x+w, whatever was there before
C7_GlyphRoundTrip ==
    (op = "blit" /\ args.c \in 48 .. 57 /\ InFont(args.c, args.font)
        /\ args.x >= 0 /\ args.x + ret < LINE_WIDTH) =>
        /\ ret = GlyphWidth(args.font, args.c)
        /\ \A j \in 0 .. (FontRows(args.font) - 1) :
              (args.yPos + j \in 0 .. (DISPLAY_ROWS - 1)) =>
                  /\ \A i \in 0 .. (ret - 1) :
                        scr[args.x + i + LINE_WIDTH * (args.yPos + j)]
                            = GlyphCol(args.font, args.c, i, j)
                  /\ scr[args.x + ret + LINE_WIDTH * (args.yPos + j)] = 0

\* a 16-row digit blitted over an all-ones framebuffer
C7_Witness ==
    /\ op = "blit" /\ args.c = 53 /\ args.font = "digits5x16rn"
    /\ args.x = 10 /\ args.yPos = 0
    /\ pre.scr[15] = 255 /\ scr[15] = 0 /\ scr[15 + LINE_WIDTH] = 0
    /\ scr[10] = GlyphCol("digits5x16rn", 53, 0, 0)

RECURSIVE AdvanceSum(_, _, _)
AdvanceSum(str, k, font) ==
    IF k > Len(str) THEN 0 ELSE DrawCharRet(str[k], font) + AdvanceSum(str, k + 1, font)

\* C8: stringWidth(text, font) is the sum of the widths drawCharWithY advances
\* by, plus one per character, minus one
C8_StringWidthMatchesBlit ==
    op = "stringWidth" =>
        ret = AdvanceSum(args.str, 1, args.font) + Len(args.str) - 1


\* ------------------------------------------------------------ pixel renderer alone
(* One call of drawLEDPixel for a logical cell under every accepted LED      *)
(* size and spacing, then the same call again after the style is toggled.    *)
MIN_LED_SIZE == 4
MAX_LED_SIZE == 12
MAX_LED_SPACING == 3
TestXs == {-1, 0, 13, 31, 32}
TestYs == {-1, 0, 7, 8, 15, 16}

InitPixel ==
    /\ InitBuffers /\ InitFormat /\ InitTime /\ InitMode /\ InitSensor /\ InitButton
    /\ millis = 0 /\ bootClock = NoClock /\ requests = 0
    /\ ledSize \in MIN_LED_SIZE .. MAX_LED_SIZE
    /\ ledSpacing \in 0 .. MAX_LED_SPACING
    /\ displayStyle \in {0, 1}
    /\ ledOnColor = COLOR_RED
    /\ ledSurroundColor \in {COLOR_RED, COLOR_WHITE}
    /\ ledOffColor = INITIAL_LED_OFF_COLOR
    /\ surroundMatchesLED = FALSE
    /\ displayRotation = 1
    /\ op = "init" /\ ret = 0 /\ ledCalls = <<>> /\ tftCalls = <<>>
    /\ pre = [calls |-> <<>>, style |-> -1]
    /\ pc = "call"
    /\ \E x \in TestXs, y \in TestYs, lit \in BOOLEAN :
          args = [kind |-> "pixel", x |-> x, y |-> y, lit |-> lit]

PixelFrame ==
    /\ UNCHANGED <<args, ret, ledCalls, requests>>
    /\ UNCHANGED <<bufVars, formatVars, timeVars, modeVars, sensorVars, envVars>>
    /\ UNCHANGED <<ledSize, ledSpacing, ledOnColor, ledSurroundColor, ledOffColor,
                   surroundMatchesLED, displayRotation>>

P_Draw ==
    /\ pc = "call" /\ args.kind = "pixel"
    /\ tftCalls' = drawLEDPixel(args.x, args.y, args.lit, ledSize, ledSpacing,
                                displayStyle, ledOnColor, ledSurroundColor)
    /\ pre' = [calls |-> <<>>, style |-> displayStyle]
    /\ op' = "drawLEDPixel"
    /\ pc' = "drawn"
    /\ UNCHANGED displayStyle
    /\ PixelFrame

\* displayStyle = (displayStyle + 1) % 2, and the same cell drawn again
P_Restyle ==
    /\ pc = "drawn"
    /\ displayStyle' = (displayStyle + 1) % 2
    /\ tftCalls' = drawLEDPixel(args.x, args.y, args.lit, ledSize, ledSpacing,
                                displayStyle', ledOnColor, ledSurroundColor)
    /\ pre' = [calls |-> tftCalls, style |-> displayStyle]
    /\ op' = "restyle"
    /\ pc' = "done"
    /\ PixelFrame

NextPixel == P_Draw \/ P_Restyle
SpecPixel == InitPixel /\ [][NextPixel]_vars

Rect(x, y, w, h) == (x .. (x + w - 1)) \X (y .. (y + h - 1))
\* the screen pixels a sequence of TFT calls touches
Covered(calls) ==
    UNION {Rect(calls[k].x, calls[k].y, calls[k].w, calls[k].h) : k \in 1 .. Len(calls)}

\* C10: for the same cell and layout the two styles draw into the same
\* ledSize x ledSize square with the same top-left corner, lit or unlit
C10_StylesShareTheCellSquare ==
    op = "restyle" =>
        /\ Covered(tftCalls) = Covered(pre.calls)
        /\ Len(tftCalls) = 0 <=> Len(pre.calls) = 0
        /\ Len(tftCalls) > 0 =>
              /\ tftCalls[1].x = pre.calls[1].x /\ tftCalls[1].y = pre.calls[1].y
              /\ Covered(tftCalls) = Rect(tftCalls[1].x, tftCalls[1].y, ledSize, ledSize)

\* a lit cell of the lower module row drawn as a circular LED, then as a block
C10_Witness ==
    /\ op = "restyle" /\ args.x = 13 /\ args.y = 8 /\ args.lit
    /\ pre.style = 1 /\ displayStyle = 0 /\ ledSpacing > 0
    /\ Len(pre.calls) > 1 /\ Len(tftCalls) = 1

\* the cell of the call lies on the matrix, so drawLEDPixel draws
CellDrawn ==
    /\ op = "drawLEDPixel"
    /\ args.x \in 0 .. 31 /\ args.y \in 0 .. 15
    /\ Len(tftCalls) > 0

C12_CenteringOffsetClamped ==
    CellDrawn =>
        /\ tftCalls[1].x - args.x * ledSize >= 0
        /\ 320 - ledSize * 32 >= 0 =>
               tftCalls[1].x - args.x * ledSize = (320 - ledSize * 32) \div 2
        /\ ledSize = 9 =>
               getDisplayWidth(ledSize) = 288 /\ tftCalls[1].x - args.x * ledSize = 16
        /\ ledSize = 12 =>
               getDisplayWidth(ledSize) = 384 /\ tftCalls[1].x - args.x * ledSize = 0

\* the leftmost cell of a matrix that is wider than the canvas
C12_Witness ==
    /\ CellDrawn /\ ledSize = 12 /\ args.x = 0 /\ args.y = 0
    /\ tftCalls[1].x = 0


\* ------------------------------------------------------------ the program
(* setup(), then loop(): server.handleClient() serves at most one request,   *)
(* then updateTime() runs.  The wall clock is synchronised and the horizon   *)
(* ends before the first periodic sensor read or NTP sync of loop() is due.  *)
MaxRequests == 2
MaxLoopMs == 1500
TickSteps == {500, 1000}
\* the unconditional delays of setup() add up to more than 8 s
SetupMs == 8300
\* the wall clock at boot: time(nullptr) and its local time of day and date;
\* the last one is a clock that no NTP answer has set
Boots == {[epoch |-> 1793848022, sod |-> 50822, day |-> 5, month |-> 11, year |-> 2026],
          [epoch |-> 0, sod |-> 0, day |-> 1, month |-> 1, year |-> 1970]}
\* what the reads past the end of the font table return while "READY" is centred
SetupOobBytes == {0, 255}
Readings == {[ok |-> FALSE, temp |-> 0, hum |-> 0], [ok |-> TRUE, temp |-> 23, hum |-> 45]}
\* a request argument: <<>> when server.hasArg() is false, else <<value>>
NoArg == <<>>
Arg(v) == <<v>>

ComposeIn(se, h12, h24, mi, d, mo, y, u24, lz, fahr, sens, temp, hum, fmt) ==
    [seconds |-> se, hours |-> h12, hours24 |-> h24, minutes |-> mi, day |-> d,
     month |-> mo, year |-> y, use24 |-> u24, lz |-> lz, fahr |-> fahr,
     sensor |-> sens, temp |-> temp, hum |-> hum, fmt |-> fmt]

\* the globals the composers read, as they are now
CurIn ==
    ComposeIn(seconds, hours, hours24, minutes, day, month, year, use24HourFormat,
              showLeadingZero, useFahrenheit, sensorAvailable, temperature, humidity,
              dateFormat)

\* the frame showMessage(msg) leaves in scr[]
showMessage(msg, oob) ==
    With(CDiv(TOTAL_WIDTH - stringWidth(msg, "font3x7", oob), 2),
         LAMBDA x0 :
            LET x == IF x0 < 0 THEN 0 ELSE IF x0 >= TOTAL_WIDTH THEN TOTAL_WIDTH - 1 ELSE x0
            IN  TextSpaced(Pen(clearScreen, x), msg, 1, 0, "font3x7").buf)

\* 24 * 3600
ONE_DAY == 86400

\* time(nullptr) ms milliseconds after boot
TimeNow(ms) == bootClock.epoch + (ms \div 1000)

\* localtime of the wall clock ms milliseconds after boot
SecondOfDay(ms) == (bootClock.sod + (ms \div 1000)) % 86400
Hour24At(ms) == SecondOfDay(ms) \div 3600
Hour12At(ms) == IF Hour24At(ms) % 12 = 0 THEN 12 ELSE Hour24At(ms) % 12
MinuteAt(ms) == (SecondOfDay(ms) \div 60) % 60
SecondAt(ms) == SecondOfDay(ms) % 60

\* mutant: every tick takes the second as changed
SecondChangedAlways(ms, last) == TRUE

\* seconds != lastSecond
SecondChanged(ms, last) == SecondAt(ms) # last

\* mutant: the mode advances as soon as the interval has elapsed exactly
ModeDueAtInterval(ms, last, interval) == ms - last >= interval * 1000

\* millis() - lastModeSwitch > (modeSwitchInterval * 1000)
ModeDue(ms, last, interval) == ms - last > interval * 1000

\* mutant: the switch steps over one mode
NextModeSkipping(mode) == (mode + 2) % 3

\* currentMode = (currentMode + 1) % 3
NextMode(mode) == (mode + 1) % 3

\* updateTime() at ms milliseconds after boot, from framebuffer buf, shadow
\* (last, first) and canvas cv, with the sensor values given; after the calls
\* in before
updateTime(ms, buf, last, first, cv, sens, temp, hum, before) ==
    IF TimeNow(ms) < ONE_DAY
    THEN /\ UNCHANGED <<timeVars, forceFullRedraw, currentMode>>
         /\ scr' = buf
         /\ lastScr' = last /\ firstRun' = first /\ canvas' = cv
         /\ ledCalls' = before
    ELSE
    /\ hours' = Hour12At(ms)
    /\ hours24' = Hour24At(ms)
    /\ minutes' = MinuteAt(ms)
    /\ seconds' = SecondAt(ms)
    /\ day' = bootClock.day /\ month' = bootClock.month /\ year' = bootClock.year
    /\ IF SecondChanged(ms, lastSecond)
       THEN /\ lastSecond' = SecondAt(ms)
            /\ scr' = Compose(currentMode,
                              ComposeIn(SecondAt(ms), Hour12At(ms), Hour24At(ms),
                                        MinuteAt(ms), bootClock.day, bootClock.month,
                                        bootClock.year, use24HourFormat, showLeadingZero,
                                        useFahrenheit, sens, temp, hum, dateFormat),
                              buf)
            /\ RefreshAll(scr', last, first, forceFullRedraw, cv, CurSettings, before)
       ELSE /\ lastSecond' = lastSecond
            /\ scr' = buf
            /\ lastScr' = last /\ firstRun' = first /\ canvas' = cv
            /\ ledCalls' = before
            /\ UNCHANGED forceFullRedraw
    /\ currentMode' = IF ModeDue(ms, lastModeSwitch, modeSwitchInterval)
                      THEN NextMode(currentMode) ELSE currentMode

FillScreenCall == <<"fillScreen", -1, -1, FALSE>>

\* setup(): the boot messages end with showMessage("READY"); then
\* clearScreen(), tft.fillScreen(BG_COLOR), updateTime() and
\* lastModeSwitch = millis().  ledCalls holds the calls from the fillScreen on.
Setup ==
    /\ pc = "setup"
    /\ \E oob \in SetupOobBytes, r \in Readings :
          /\ sensorAvailable' = r.ok /\ temperature' = r.temp /\ humidity' = r.hum
          /\ millis' = SetupMs
          /\ updateTime(SetupMs, clearScreen, showMessage(<<82, 69, 65, 68, 89>>, oob),
                        FALSE, fillScreen, r.ok, r.temp, r.hum, <<FillScreenCall>>)
          /\ lastModeSwitch' = SetupMs
          /\ args' = [kind |-> "setup", oob |-> oob]
    /\ op' = "setup"
    /\ pre' = [mode |-> currentMode, lastModeSwitch |-> lastModeSwitch]
    /\ pc' = "handleClient"
    /\ UNCHANGED <<styleVars, formatVars, bootClock, bootVars, requests, ret, tftCalls>>

\* updateTime() of one pass of loop(), d milliseconds after the previous one,
\* while the horizon limit is not passed
UpdateTimeUntil(limit) ==
    /\ pc = "updateTime"
    /\ \E d \in TickSteps :
          /\ millis + d <= limit
          /\ millis' = millis + d
          /\ updateTime(millis', scr, lastScr, firstRun, canvas, sensorAvailable,
                        temperature, humidity, <<>>)
          /\ lastModeSwitch' = IF /\ ~(TimeNow(millis') < ONE_DAY)
                                  /\ ModeDue(millis', lastModeSwitch, modeSwitchInterval)
                               THEN millis' ELSE lastModeSwitch
    /\ op' = "updateTime"
    /\ args' = [kind |-> "updateTime"]
    /\ pre' = [mode |-> currentMode, lastModeSwitch |-> lastModeSwitch]
    /\ pc' = "handleClient"
    /\ UNCHANGED <<styleVars, formatVars, sensorVars, bootClock, bootVars, requests, ret,
                   tftCalls>>

UpdateTime == UpdateTimeUntil(SetupMs + MaxLoopMs)

\* ---- web handlers
LedColorPreset(idx) ==
    CASE idx = 0 -> COLOR_RED
      [] idx = 1 -> COLOR_GREEN
      [] idx = 2 -> COLOR_BLUE
      [] idx = 3 -> COLOR_YELLOW
      [] idx = 4 -> COLOR_CYAN
      [] idx = 5 -> COLOR_MAGENTA
      [] idx = 6 -> COLOR_WHITE
      [] idx = 7 -> COLOR_ORANGE
      [] OTHER -> COLOR_RED

SurroundPreset(idx, on) ==
    CASE idx = 0 -> COLOR_WHITE
      [] idx = 1 -> COLOR_LIGHT_GRAY
      [] idx = 2 -> COLOR_DARK_GRAY
      [] idx = 3 -> COLOR_RED
      [] idx = 4 -> COLOR_GREEN
      [] idx = 5 -> COLOR_BLUE
      [] idx = 6 -> COLOR_YELLOW
      [] idx = 7 -> on
      [] OTHER -> COLOR_WHITE

\* mutant: a new LED colour leaves the surround colour alone
SurroundKeptOnLedColor(match, on, surround) == surround

\* if (surroundMatchesLED) ledSurroundColor = ledOnColor;
SurroundAfterLedColor(match, on, surround) == IF match THEN on ELSE surround

StyleReq(toggle, ledcolor, surroundcolor, ledsize, ledspacing) ==
    [kind |-> "style", toggle |-> toggle, ledcolor |-> ledcolor,
     surroundcolor |-> surroundcolor, ledsize |-> ledsize, ledspacing |-> ledspacing]

StyleRequests ==
    {StyleReq(TRUE, NoArg, NoArg, NoArg, NoArg),
     StyleReq(FALSE, Arg(1), NoArg, NoArg, NoArg),
     StyleReq(FALSE, Arg(8), NoArg, NoArg, NoArg),
     StyleReq(FALSE, NoArg, Arg(7), NoArg, NoArg),
     StyleReq(FALSE, NoArg, Arg(2), NoArg, NoArg),
     StyleReq(FALSE, NoArg, NoArg, Arg(12), Arg(4)),
     StyleReq(FALSE, NoArg, NoArg, Arg(13), Arg(0)),
     StyleReq(FALSE, NoArg, NoArg, NoArg, Arg(3)),
     StyleReq(FALSE, NoArg, NoArg, Arg(3), Arg(-1))}

\* mutant: the LED size has no upper limit
LedSizeOkFromMin(req) ==
    req.ledsize # NoArg /\ req.ledsize[1] >= MIN_LED_SIZE

LedSizeOk(req) ==
    req.ledsize # NoArg /\ req.ledsize[1] >= MIN_LED_SIZE /\ req.ledsize[1] <= MAX_LED_SIZE

LedSpacingOk(req) ==
    req.ledspacing # NoArg /\ req.ledspacing[1] >= 0 /\ req.ledspacing[1] <= MAX_LED_SPACING

\* mutant: an accepted spacing does not set the handler's flag changed
StyleChangedButForSpacing(req) ==
    \/ req.toggle
    \/ req.ledcolor # NoArg
    \/ req.surroundcolor # NoArg
    \/ LedSizeOk(req)

\* the handler's flag changed
StyleChanged(req) ==
    \/ req.toggle
    \/ req.ledcolor # NoArg
    \/ req.surroundcolor # NoArg
    \/ LedSizeOk(req)
    \/ LedSpacingOk(req)

HandlerPre ==
    [op |-> op, mode |-> currentMode, settings |-> CurSettings, spacing |-> ledSpacing,
     match |-> surroundMatchesLED, interval |-> modeSwitchInterval, fmt |-> dateFormat,
     canvas |-> canvas, scr |-> scr]

HandlerFrame ==
    /\ pc' = "updateTime"
    /\ requests' = requests + 1
    /\ pre' = HandlerPre
    /\ UNCHANGED <<timeVars, modeVars, sensorVars, envVars, ret, tftCalls>>

\* mutant: the composed frame keeps only the columns that fit on the canvas
\* at the LED size in force
ForcedRedrawClipped(in, st) ==
    /\ scr' = [b \in BufIdx |->
                  IF ((b % LINE_WIDTH) + 1) * st.size > TFT_WIDTH THEN 0
                  ELSE Compose(currentMode, in, scr)[b]]
    /\ RefreshAll(scr', lastScr, firstRun, TRUE, fillScreen, st, <<FillScreenCall>>)

\* tft.fillScreen(BG_COLOR); forceFullRedraw = true; the current mode is
\* composed from in; refreshAll()
ForcedRedraw(in, st) ==
    /\ scr' = Compose(currentMode, in, scr)
    /\ RefreshAll(scr', lastScr, firstRun, TRUE, fillScreen, st, <<FillScreenCall>>)

NoRedraw == UNCHANGED bufVars /\ ledCalls' = <<>>

\* server.on("/style", ...)
H_Style ==
    /\ pc = "handleClient" /\ requests < MaxRequests
    /\ \E req \in StyleRequests :
          LET style1 == IF req.toggle THEN (displayStyle + 1) % 2 ELSE displayStyle
              on1 == IF req.ledcolor # NoArg THEN LedColorPreset(req.ledcolor[1])
                     ELSE ledOnColor
              off1 == IF req.ledcolor # NoArg THEN OffColorFromOn(on1) ELSE ledOffColor
              sur1 == IF req.ledcolor # NoArg
                      THEN SurroundAfterLedColor(surroundMatchesLED, on1, ledSurroundColor)
                      ELSE ledSurroundColor
              sur2 == IF req.surroundcolor # NoArg
                      THEN SurroundPreset(req.surroundcolor[1], on1) ELSE sur1
              match2 == IF req.surroundcolor # NoArg THEN req.surroundcolor[1] = 7
                        ELSE surroundMatchesLED
              size1 == IF LedSizeOk(req) THEN req.ledsize[1] ELSE ledSize
              spacing1 == IF LedSpacingOk(req)
                          THEN req.ledspacing[1] ELSE ledSpacing
          IN  /\ displayStyle' = style1
              /\ ledOnColor' = on1
              /\ ledOffColor' = off1
              /\ ledSurroundColor' = sur2
              /\ surroundMatchesLED' = match2
              /\ ledSize' = size1
              /\ ledSpacing' = spacing1
              /\ IF StyleChanged(req)
                 THEN ForcedRedraw(CurIn, Settings(size1, style1, on1, sur2, displayRotation))
                 ELSE NoRedraw
              /\ args' = req
    /\ op' = "style"
    /\ UNCHANGED <<displayRotation, formatVars>>
    /\ HandlerFrame

\* server.on("/rotation", ...)
H_Rotation ==
    /\ pc = "handleClient" /\ requests < MaxRequests
    /\ \E toggle \in BOOLEAN :
          /\ args' = [kind |-> "rotation", toggle |-> toggle]
          /\ IF toggle
             THEN /\ displayRotation' = IF displayRotation = 1 THEN 3 ELSE 1
                  /\ ForcedRedraw(CurIn, Settings(ledSize, displayStyle, ledOnColor,
                                                  ledSurroundColor, displayRotation'))
             ELSE UNCHANGED displayRotation /\ NoRedraw
    /\ op' = "rotation"
    /\ UNCHANGED <<ledSize, ledSpacing, displayStyle, ledOnColor, ledSurroundColor,
                   ledOffColor, surroundMatchesLED, formatVars>>
    /\ HandlerFrame

\* server.on("/dateformat", ...)
H_DateFormat ==
    /\ pc = "handleClient" /\ requests < MaxRequests
    /\ \E newFormat \in {3, 5} :
          /\ args' = [kind |-> "dateformat", format |-> newFormat]
          /\ IF newFormat >= 0 /\ newFormat <= 4
             THEN /\ dateFormat' = newFormat
                  /\ ForcedRedraw([CurIn EXCEPT !.fmt = newFormat], CurSettings)
             ELSE UNCHANGED dateFormat /\ NoRedraw
    /\ op' = "dateformat"
    /\ UNCHANGED <<styleVars, modeSwitchInterval, use24HourFormat, showLeadingZero,
                   useFahrenheit>>
    /\ HandlerFrame

\* server.on("/modeinterval", ...)
H_ModeInterval ==
    /\ pc = "handleClient" /\ requests < MaxRequests
    /\ \E newInterval \in {1, 61} :
          /\ args' = [kind |-> "modeinterval", seconds |-> newInterval]
          /\ modeSwitchInterval' = IF newInterval >= 1 /\ newInterval <= 60
                                   THEN newInterval ELSE modeSwitchInterval
    /\ op' = "modeinterval"
    /\ NoRedraw
    /\ UNCHANGED <<styleVars, dateFormat, use24HourFormat, showLeadingZero, useFahrenheit>>
    /\ HandlerFrame

\* server.on("/temperature", ...), "/timeformat" and "/leadingzero": a toggle
H_Toggle ==
    /\ pc = "handleClient" /\ requests < MaxRequests
    /\ \E which \in {"temperature", "timeformat", "leadingzero"} :
          /\ args' = [kind |-> which]
          /\ op' = which
          /\ useFahrenheit' = IF which = "temperature" THEN ~useFahrenheit ELSE useFahrenheit
          /\ use24HourFormat' = IF which = "timeformat" THEN ~use24HourFormat
                                ELSE use24HourFormat
          /\ showLeadingZero' = IF which = "leadingzero" THEN ~showLeadingZero
                                ELSE showLeadingZero
    /\ NoRedraw
    /\ UNCHANGED <<styleVars, dateFormat, modeSwitchInterval>>
    /\ HandlerFrame

\* server.handleClient() with no client waiting
H_None ==
    /\ pc = "handleClient"
    /\ pc' = "updateTime"
    /\ op' = "idle"
    /\ args' = [kind |-> "idle"]
    /\ pre' = [mode |-> currentMode]
    /\ ledCalls' = <<>>
    /\ UNCHANGED <<bufVars, styleVars, formatVars, timeVars, modeVars, sensorVars, envVars,
                   requests, ret, tftCalls>>

\* ------------------------------------------------------------ BOOT button
(* The start of setup(): the BOOT button is sampled, and while it reads LOW  *)
(* it is polled every 100 ms until 3 s have passed.  The button is LOW from  *)
(* power-up until buttonHeldUntil and HIGH from then on.                     *)
HOLD_MS == 3000
POLL_MS == 100
HoldTimes == {0, 40, 1000, 2900, 2950, 3000, 3050, 4000}

\* digitalRead(BOOT_BTN_PIN) == LOW at time t
ButtonLow(t) == t < buttonHeldUntil

InitBoot ==
    /\ InitBuffers /\ InitStyle /\ InitFormat /\ InitTime /\ InitMode /\ InitSensor
    /\ InitObs
    /\ millis = 0 /\ bootClock = NoClock /\ requests = 0
    /\ buttonHeldUntil \in HoldTimes /\ pressStart = 0 /\ resetWiFi = FALSE
    /\ pc = "bootSample"

BootFrame ==
    /\ UNCHANGED <<bufVars, styleVars, formatVars, timeVars, modeVars, sensorVars>>
    /\ UNCHANGED <<bootClock, buttonHeldUntil, requests, args, pre, ret, ledCalls, tftCalls>>

\* if (digitalRead(BOOT_BTN_PIN) == LOW) { ...; pressStart = millis();
B_Sample ==
    /\ pc = "bootSample"
    /\ IF ButtonLow(millis)
       THEN pressStart' = millis /\ pc' = "bootWhile"
       ELSE UNCHANGED pressStart /\ pc' = "bootDone"
    /\ op' = "sample"
    /\ UNCHANGED <<millis, resetWiFi>>
    /\ BootFrame

\* while (digitalRead(BOOT_BTN_PIN) == LOW && (millis() - pressStart) < 3000)
B_While ==
    /\ pc = "bootWhile"
    /\ pc' = IF ButtonLow(millis) /\ millis - pressStart < HOLD_MS
             THEN "bootDelay" ELSE "bootIf"
    /\ op' = "while"
    /\ UNCHANGED <<millis, pressStart, resetWiFi>>
    /\ BootFrame

\* delay(100);
B_Delay ==
    /\ pc = "bootDelay"
    /\ millis' = millis + POLL_MS
    /\ pc' = "bootWhile"
    /\ op' = "delay"
    /\ UNCHANGED <<pressStart, resetWiFi>>
    /\ BootFrame

\* millis() - pressStart >= 3000
ResetDecided(ms, start) == ms - start >= HOLD_MS

\* if (millis() - pressStart >= 3000) resetWiFi = true;
B_If ==
    /\ pc = "bootIf"
    /\ resetWiFi' = ResetDecided(millis, pressStart)
    /\ pc' = "bootDone"
    /\ op' = "if"
    /\ UNCHANGED <<millis, pressStart>>
    /\ BootFrame

NextBoot == B_Sample \/ B_While \/ B_Delay \/ B_If
SpecBoot == InitBoot /\ [][NextBoot]_vars

\* ------------------------------------------------------------ setup and loop
Init ==
    /\ InitBuffers /\ InitStyle /\ InitFormat /\ InitTime /\ InitMode /\ InitSensor /\ InitButton
    /\ InitObs
    /\ millis = 0
    /\ bootClock \in Boots
    /\ requests = 0
    /\ pc = "setup"

Next ==
    \/ Setup
    \/ UpdateTime
    \/ H_None
    \/ H_Style
    \/ H_Rotation
    \/ H_DateFormat
    \/ H_ModeInterval
    \/ H_Toggle

Spec == Init /\ [][Next]_vars

\* ---- the mode cycle
(* setup() with a synchronised clock, then loop() with no request but        *)
(* /modeinterval, over a horizon long enough for a full turn of the modes    *)
(* at the shortest interval.                                                 *)
MaxCycleMs == 4500

InitCycle ==
    /\ InitBuffers /\ InitStyle /\ InitFormat /\ InitTime /\ InitMode /\ InitSensor /\ InitButton
    /\ InitObs
    /\ millis = 0
    /\ bootClock \in {b \in Boots : ~(b.epoch < ONE_DAY)}
    /\ requests = 0
    /\ pc = "setup"

CycleTick == UpdateTimeUntil(SetupMs + MaxCycleMs)

NextCycle ==
    \/ Setup
    \/ H_None
    \/ H_ModeInterval
    \/ CycleTick

SpecCycle == InitCycle /\ [][NextCycle]_vars


\* the request changes a rendering setting and the handler accepts it
AcceptedChange ==
    \/ /\ op = "rotation"
       /\ args.toggle
    \/ /\ op = "style"
       /\ \/ args.toggle
          \/ args.ledcolor # NoArg
          \/ args.surroundcolor # NoArg
          \/ args.ledsize # NoArg /\ args.ledsize[1] \in MIN_LED_SIZE .. MAX_LED_SIZE
          \/ args.ledspacing # NoArg /\ args.ledspacing[1] \in 0 .. MAX_LED_SPACING

\* C4: every accepted change of the display style, LED colour, surround
\* colour, LED size, LED spacing or rotation clears the canvas to the
\* background and forces the refreshAll() that follows, which draws all 512
\* pixels with the new settings
C4_AcceptedChangeRepaintsAll ==
    AcceptedChange =>
        /\ Len(ledCalls) = 1 + TOTAL_WIDTH * TOTAL_HEIGHT
        /\ ledCalls[1] = FillScreenCall
        /\ LedPixels = AllPixels
        /\ \A b \in BufIdx : canvas[b] = Paint(scr[b], CurSettings)
        /\ lastScr = scr
        /\ ~forceFullRedraw /\ ~firstRun

\* a request that changes only the LED spacing, over a canvas that held cells
\* painted with the settings in force
C4_Witness ==
    /\ op = "style" /\ args.ledspacing = Arg(3) /\ args.ledsize = NoArg
    /\ ~args.toggle /\ args.ledcolor = NoArg /\ args.surroundcolor = NoArg
    /\ pre.spacing # 3 /\ ledSpacing = 3
    /\ \E b \in BufIdx : pre.canvas[b] = Paint(scr[b], CurSettings)
    /\ \E b \in BufIdx : pre.canvas[b] = Blank
    /\ Len(ledCalls) = 513
    /\ \A b \in BufIdx : canvas[b] = Paint(scr[b], CurSettings)

SameHueDimmed(dimmed, color, factor) ==
    /\ RedOf(dimmed) = RedOf(color) \div (factor + 1)
    /\ GreenOf(dimmed) = GreenOf(color) \div (factor + 1)
    /\ BlueOf(dimmed) = BlueOf(color) \div (factor + 1)

\* C9: every dimmed colour has each of its red, green and blue channels equal
\* to the channel of the colour it is derived from, integer-divided by
\* dimFactor + 1: the housing colour dimRGB565 makes from the surround colour,
\* and the off colour the /style handler derives from the new LED colour
C9_DimmingKeepsChannelsApart ==
    /\ SameHueDimmed(dimRGB565(ledSurroundColor, HOUSING_DIM_FACTOR), ledSurroundColor,
                     HOUSING_DIM_FACTOR)
    /\ (op = "style" /\ args.ledcolor # NoArg) =>
           SameHueDimmed(ledOffColor, ledOnColor, HOUSING_DIM_FACTOR)

\* C13: a surround that matches the LED colour follows it: after every
\* request surroundMatchesLED implies ledSurroundColor = ledOnColor, and a
\* request that sets the LED colour while the surround matches, and names no
\* surround colour, leaves the surround equal to the new LED colour
C13_MatchingSurroundFollowsLed ==
    /\ surroundMatchesLED => ledSurroundColor = ledOnColor
    /\ (op = "style" /\ args.ledcolor # NoArg /\ args.surroundcolor = NoArg
            /\ pre.match) =>
           (surroundMatchesLED /\ ledSurroundColor = ledOnColor)

\* the LED colour set to green after the surround was set to match it
C13_Witness ==
    /\ op = "style" /\ args.ledcolor = Arg(1) /\ args.surroundcolor = NoArg
    /\ pre.match /\ pre.settings.on = COLOR_RED /\ pre.settings.surround = COLOR_RED
    /\ ledOnColor = COLOR_GREEN /\ ledSurroundColor = COLOR_GREEN
    /\ surroundMatchesLED

\* C14: a request whose value lies outside its range (LED size outside
\* 4..12, LED spacing outside 0..3, mode interval outside 1..60, date format
\* outside 0..4, LED or surround colour index outside the presets 0..7) leaves
\* the setting it names as it was before the request
C14_OutOfRangeValueNotApplied ==
    /\ (op = "style" /\ args.ledsize # NoArg /\ args.ledsize[1] \notin 4 .. 12) =>
           ledSize = pre.settings.size
    /\ (op = "style" /\ args.ledspacing # NoArg /\ args.ledspacing[1] \notin 0 .. 3) =>
           ledSpacing = pre.spacing
    /\ (op = "modeinterval" /\ args.seconds \notin 1 .. 60) =>
           modeSwitchInterval = pre.interval
    /\ (op = "dateformat" /\ args.format \notin 0 .. 4) => dateFormat = pre.fmt
    /\ (op = "style" /\ args.ledcolor # NoArg /\ args.ledcolor[1] \notin 0 .. 7) =>
           ledOnColor = pre.settings.on
    /\ (op = "style" /\ args.surroundcolor # NoArg
            /\ args.surroundcolor[1] \notin 0 .. 7) =>
           ledSurroundColor = pre.settings.surround

\* a pass of loop() has just run updateTime()
Ticked == op = "updateTime"

\* the tick moved to the next mode and restarted the interval
ModeAdvanced == currentMode = (pre.mode + 1) % 3 /\ lastModeSwitch = millis

ModeKept == currentMode = pre.mode /\ lastModeSwitch = pre.lastModeSwitch

\* C15 as stated: on each tick the mode advances exactly when at least the
\* interval has elapsed since the last switch, the interval itself included;
\* then currentMode is the next of the three modes and lastModeSwitch is now,
\* otherwise both are unchanged
C15_AdvancesAtInterval ==
    Ticked =>
        IF millis - pre.lastModeSwitch >= modeSwitchInterval * 1000
        THEN ModeAdvanced ELSE ModeKept

\* C15: on each tick with the wall clock set, the mode advances exactly when
\* more than modeSwitchInterval * 1000 ms have elapsed since the last switch
\* (not yet at the interval itself); then currentMode is the next of the three
\* modes and lastModeSwitch is now; otherwise, and on every tick while the
\* clock is not set, both are unchanged
C15_AdvancesAfterInterval ==
    Ticked =>
        IF /\ ~(TimeNow(millis) < ONE_DAY)
           /\ millis - pre.lastModeSwitch > modeSwitchInterval * 1000
        THEN ModeAdvanced ELSE ModeKept

C15_Witness ==
    /\ Ticked
    /\ modeSwitchInterval = 1
    /\ millis - pre.lastModeSwitch = 1500
    /\ pre.mode = 1 /\ currentMode = 2
    /\ lastModeSwitch = millis

\* the framebuffer holds the layout of the given mode for the current values
Shows(mode) == scr = Compose(mode, CurIn, scr)

\* C16 as stated: a tick that switches the mode also composes the layout of
\* the new mode, without waiting for the next change of the second
C16_SwitchComposesNewMode ==
    (Ticked /\ currentMode # pre.mode) => Shows(currentMode)

\* C16: a tick recomposes and refreshes the framebuffer exactly when the wall
\* clock is set and its second differs from lastSecond, and it composes the
\* layout of the mode current before the tick's switch test; a mode switch
\* composes nothing, so after a switching tick the framebuffer does not hold
\* the new mode's layout, which waits for the next change of the second
C16_ComposedOnSecondChangeOnly ==
    [][(pc = "updateTime" /\ pc' = "handleClient") =>
          /\ IF ~(TimeNow(millis') < ONE_DAY) /\ seconds' # lastSecond
             THEN scr' = Compose(currentMode, CurIn', scr) /\ lastScr' = scr'
             ELSE scr' = scr /\ lastScr' = lastScr /\ ledCalls' = <<>>
          /\ currentMode' # currentMode => scr' # Compose(currentMode', CurIn', scr)
      ]_vars

C16_Witness ==
    /\ Ticked
    /\ pre.mode = 1 /\ currentMode = 2
    /\ Shows(1) /\ ~Shows(2)
    /\ ledCalls = <<>>

\* C17: every mode that appears stays displayed for at least
\* modeSwitchInterval seconds before the next replaces it, the first clock
\* frame after boot included: that frame is mode 0, composed at the end of
\* setup(), so a tick leaves the layout of mode 1 or mode 2 in the framebuffer
\* only when the interval has passed since the end of setup()
C17_ModeStaysForInterval ==
    (Ticked /\ (Shows(1) \/ Shows(2))) =>
        millis - SetupMs >= modeSwitchInterval * 1000

\* the values composed, at the even second that shows the colon and at the
\* odd second after it that hides it
EvenSecond(in) == [in EXCEPT !.seconds = 2 * (in.seconds \div 2)]
OddSecond(in) == [in EXCEPT !.seconds = 2 * (in.seconds \div 2) + 1]

GlyphAt(buf, x, row, c, font) ==
    \A i \in 0 .. (GlyphWidth(font, c) - 1) :
        /\ x + i < LINE_WIDTH
        /\ buf[LINE_WIDTH * row + x + i] = GlyphCol(font, c, i, 0)

\* the glyphs of str[k..] lie in module row row from column x0 on, in order
\* and side by side
RECURSIVE RowHoldsFrom(_, _, _, _, _, _)
RowHoldsFrom(buf, row, str, k, x0, font) ==
    IF k > Len(str) THEN TRUE
    ELSE \E x \in x0 .. (LINE_WIDTH - 1) :
            /\ GlyphAt(buf, x, row, str[k], font)
            /\ RowHoldsFrom(buf, row, str, k + 1, x + GlyphWidth(font, str[k]), font)

RowHolds(buf, row, str) == RowHoldsFrom(buf, row, str, 1, 0, "font3x7")

\* setup() has just composed Mode 0 from the wall clock and the sensor
FirstFrame == op = "setup" /\ ~(TimeNow(millis) < ONE_DAY)

\* 12-hour time without leading zero at 14:07, sensor reading 23 C and 45 %
Scenario ==
    /\ FirstFrame
    /\ ~use24HourFormat /\ ~showLeadingZero /\ ~useFahrenheit
    /\ hours24 = 14 /\ minutes = 7
    /\ sensorAvailable /\ temperature = 23 /\ humidity = 45

\* the time row of the scenario: the glyphs of 2, 0, 7, P, M with the colon
\* between 2 and 0 on even seconds only, and nothing that follows the seconds
TimeRowOfScenario ==
    LET shown == displayTimeAndTemp(EvenSecond(CurIn))
        hidden == displayTimeAndTemp(OddSecond(CurIn))
        colonAt == AfterColon(0, EvenSecond(CurIn)).x - 2
    IN  /\ RowHolds(shown, 0, <<50, 58, 48, 55, 80, 77>>)
        /\ RowHolds(hidden, 0, <<50, 48, 55, 80, 77>>)
        /\ shown[colonAt] # 0 /\ hidden[colonAt] = 0
        /\ scr = (IF seconds % 2 = 0 THEN shown ELSE hidden)
        /\ displayTimeAndTemp([CurIn EXCEPT !.seconds = (@ + 2) % 60]) = scr

\* C19: composing Mode 0 in 12-hour format without leading zero at 14:07
\* with a sensor reading of 23 C and 45 % writes the glyphs of "2:07 PM" into
\* module row 0 (the colon on even seconds only, no seconds digits) and the
\* glyphs of "T23C H45%" into module row 1
C19_Mode0Scenario ==
    Scenario =>
        /\ TimeRowOfScenario
        /\ RowHolds(scr, 1, <<84, 50, 51, 67, 72, 52, 53, 37>>)

\* C20: without sensor data Mode 0 writes the glyphs of all of "NO SENSOR"
\* into module row 1, whatever temperature and humidity are stored
C20_NoSensorPlaceholder ==
    (FirstFrame /\ ~sensorAvailable) =>
        /\ RowHolds(scr, 1, <<78, 79, 83, 69, 78, 83, 79, 82>>)
        /\ \A t, h \in {0, 23, 45} :
               displayTimeAndTemp([CurIn EXCEPT !.temp = t, !.hum = h]) = scr

\* setCol() was called with a coordinate outside the matrix
OutsideMatrix ==
    /\ op = "setCol"
    /\ \/ args.x < 0 \/ args.x >= 32
       \/ args.y < 0 \/ args.y >= 16

\* C21: setting a pixel at x outside 0..31 or y outside 0..15 leaves all 64
\* framebuffer bytes as they were and gives nothing back
C21_OutsidePixelIsDropped ==
    OutsideMatrix => (scr = pre.scr /\ ret = 0)

\* x = 32 on row 0: without the test the store would land in scr[32]
C21_Witness ==
    /\ OutsideMatrix
    /\ args.x = 32 /\ args.y = 0 /\ args.v = 1
    /\ pre.scr[32] = 0 /\ scr[32] = 0

\* C22: the WiFi credentials are reset exactly when the BOOT button is held
\* without a break for at least 3 seconds from its first sample; a release
\* before 3 seconds never resets them
C22_ResetIffHeldThreeSeconds ==
    pc = "bootDone" => (resetWiFi <=> buttonHeldUntil >= 3000)

\* the distance between the top-left corners of cell (0, 0) and cell (1, 1)
\* as drawLEDPixel draws them under the given size and spacing
CellPitch(size, spacing) ==
    LET a == drawLEDPixel(0, 0, TRUE, size, spacing, 0, COLOR_RED, COLOR_RED)
        b == drawLEDPixel(1, 1, TRUE, size, spacing, 0, COLOR_RED, COLOR_RED)
    IN  <<b[1].x - a[1].x, b[1].y - a[1].y>>

\* C23: for the same LED size a larger accepted LED spacing moves every cell
\* with x > 0 or y > 0 to another screen position and draws neighbouring
\* cells farther apart
C23_SpacingMovesCells ==
    (CellDrawn /\ (args.x > 0 \/ args.y > 0)) =>
        \A s2 \in 0 .. MAX_LED_SPACING :
            ledSpacing < s2 =>
                LET wider == drawLEDPixel(args.x, args.y, args.lit, ledSize, s2,
                                          displayStyle, ledOnColor, ledSurroundColor)
                IN  /\ <<wider[1].x, wider[1].y>> # <<tftCalls[1].x, tftCalls[1].y>>
                    /\ CellPitch(ledSize, s2)[1] > CellPitch(ledSize, ledSpacing)[1]
                    /\ CellPitch(ledSize, s2)[2] > CellPitch(ledSize, ledSpacing)[2]

\* canvas cell cell shows the 8 pixels of pixelByte as drawLEDPixel draws them
\* under st: it was painted so, or it is cleared and all 8 pixels are unlit
\* blocks, which are squares of the background colour
ShowsByte(cell, pixelByte, st) ==
    \/ cell = Paint(pixelByte, st)
    \/ cell = Blank /\ pixelByte = 0 /\ st.style = 0

\* refreshAll() has run in the step that led here
Refreshed == FirstFrame \/ (Ticked /\ Len(ledCalls) > 0)

\* C24: when refreshAll() has returned, the first clock frame of setup()
\* included, every cell of the canvas shows the current framebuffer byte; no
\* cell is blank or stale from a fillScreen the shadow cache did not follow
C24_CanvasShowsFramebuffer ==
    Refreshed => \A b \in BufIdx : ShowsByte(canvas[b], scr[b], CurSettings)

\* the rectangle of TFT call c lies inside the 320 x 240 canvas
InsideCanvas(c) ==
    /\ c.x >= 0 /\ c.y >= 0
    /\ c.x + c.w <= 320 /\ c.y + c.h <= 240

HandlerStarts == pc = "handleClient"

\* C26: whenever a web handler or another step of loop() starts, the
\* framebuffer holds a frame that was composed and refreshed to the end: it
\* equals the shadow cache and no forced redraw is pending
C26_HandlersSeeRefreshedFrame ==
    HandlerStarts => (scr = lastScr /\ ~forceFullRedraw)

\* the step that led here was setup() or a tick, and it switched the mode
Switched == (op = "setup" \/ Ticked) /\ currentMode # pre.mode

RealisticCellDrawn == CellDrawn /\ displayStyle = 1

\* the colour the zones give sub-pixel (px, py) of the cell just drawn
ZoneColor(px, py) ==
    LET dx == 2 * px - ledSize + 1
        dy == 2 * py - ledSize + 1
        distSq == dx * dx + dy * dy
    IN  IF args.lit
        THEN IF distSq <= (ledSize - 2) * (ledSize - 2) THEN ledOnColor
             ELSE IF distSq <= ledSize * ledSize THEN ledSurroundColor
             ELSE 0
        ELSE IF distSq <= (ledSize - 4) * (ledSize - 4) THEN 6144
             ELSE IF distSq <= (ledSize - 2) * (ledSize - 2)
             THEN dimRGB565(ledSurroundColor, 7)
             ELSE 0

\* C28: in the Realistic style, at every LED size, each sub-pixel (px, py) of
\* a cell ends up coloured by distSq = dx * dx + dy * dy with
\* dx = 2 * px - ledSize + 1 and dy = 2 * py - ledSize + 1: lit, the LED colour
\* up to (ledSize - 2)^2, the surround colour up to ledSize^2, background
\* beyond; unlit, the fixed off colour up to (ledSize - 4)^2, the dimmed
\* surround colour up to (ledSize - 2)^2, background beyond
C28_RealisticZones ==
    RealisticCellDrawn =>
        LET sx == tftCalls[1].x
            sy == tftCalls[1].y
            drawn == {<<tftCalls[k].x - sx, tftCalls[k].y - sy>> : k \in 2 .. Len(tftCalls)}
        IN  /\ tftCalls[1].op = "fillRect"
            /\ tftCalls[1].w = ledSize /\ tftCalls[1].h = ledSize
            /\ \A k \in 2 .. Len(tftCalls) :
                   /\ tftCalls[k].op = "drawPixel"
                   /\ tftCalls[k].x - sx \in 0 .. ledSize - 1
                   /\ tftCalls[k].y - sy \in 0 .. ledSize - 1
                   /\ tftCalls[k].color = ZoneColor(tftCalls[k].x - sx, tftCalls[k].y - sy)
            /\ \A px, py \in 0 .. ledSize - 1 :
                   <<px, py>> \notin drawn => tftCalls[1].color = ZoneColor(px, py)

\* a lit cell of size 9 with a white surround: the corner stays background,
\* the centre has the LED colour and sub-pixel (0, 4) the surround colour;
\* or an unlit one whose centre has the off colour and sub-pixel (1, 4) the
\* dimmed surround colour
C28_Witness ==
    /\ RealisticCellDrawn /\ ledSize = 9 /\ ledSurroundColor = 65535
    /\ \/ /\ args.lit
          /\ Len(tftCalls) = 82
          /\ tftCalls[2].color = 0
          /\ tftCalls[1 + 4 * 9 + 5].color = ledOnColor
          /\ tftCalls[1 + 4 * 9 + 1].color = 65535
       \/ /\ ~args.lit
          /\ \E k, j \in 2 .. Len(tftCalls) :
                /\ tftCalls[k].x = tftCalls[1].x + 4 /\ tftCalls[k].y = tftCalls[1].y + 4
                /\ tftCalls[k].color = 6144
                /\ tftCalls[j].x = tftCalls[1].x + 1 /\ tftCalls[j].y = tftCalls[1].y + 4
                /\ tftCalls[j].color = dimRGB565(65535, 7)

\* C29: in every state, whatever valid or invalid requests were served, the
\* LED size is in 4..12, the LED spacing in 0..3, the mode interval in 1..60,
\* the date format in 0..4, the display style 0 or 1, the rotation 1 or 3 and
\* the current mode 0, 1 or 2
C29_SettingsStayInRange ==
    /\ ledSize \in 4 .. 12
    /\ ledSpacing \in 0 .. 3
    /\ modeSwitchInterval \in 1 .. 60
    /\ dateFormat \in 0 .. 4
    /\ displayStyle \in {0, 1}
    /\ displayRotation \in {1, 3}
    /\ currentMode \in {0, 1, 2}

\* the second request served asks for LED size 13, after the first one set
\* the largest size or the shortest interval
C29_Witness ==
    /\ op = "style" /\ requests = 2
    /\ args.ledsize # NoArg /\ args.ledsize[1] = 13
    /\ ledSize = pre.settings.size
    /\ ledSize = 12 \/ modeSwitchInterval = 1 \/ displayRotation = 3

\* the frame before the request was the one of the current mode and inputs
ShownBefore == pre.scr = Compose(currentMode, CurIn, pre.scr)

====
